---- MODULE Spec2Model ----
(***************************************************************************)
(* serverd: the epoll event loop of main() (serverd/src/main.c:371-553).   *)
(*                                                                         *)
(* The model has the server's loop (wait, then one step per event of the   *)
(* batch) and the environment the loop talks to: the listen queue, the     *)
(* sockets of the accepted connections, the epoll ready list and the       *)
(* configured file.  One action is one path through the body of the for    *)
(* loop; a call whose result the kernel decides (accept, send, open,       *)
(* fstat, sendfile) takes its result from the set of results that call can *)
(* return.                                                                 *)
(***************************************************************************)
EXTENDS Integers, Sequences, FiniteSets, TLC

(* ------------------------------ bounds --------------------------------- *)
\* descriptors the process may hold for accepted connections (RLIMIT_NOFILE)
MaxConns == 3
\* pending connections the listen queue holds
MaxBacklog == 2
\* clients that connect during one run in which calls may fail
MaxClients == 2
\* clients that connect during one run in which every call succeeds
MaxLiveClients == 3
\* events one epoll_wait call may return in the model (<= EPOLL_MAX_EVENTS)
MaxBatch == 2
\* bytes of the request buffer (char request[1024]) in the model
BufLen == 8
\* blocks the allocator has to give before malloc() returns NULL
MaxBlocks == 2
\* the largest size a caller asks allocate_memory for
MaxSize == 2

(* --------------------------- program constants ------------------------- *)
EPOLL_MAX_EVENTS == 10

\* the listener is the first descriptor the process opens
socket_listen == 0

ConnFds == 1..MaxConns

\* the bytes a request is made of; NUL is the byte 0
SP == " "
CR == "CR"
LF == "LF"
NUL == "NUL"
TAB == "TAB"
Delims == {SP, CR, LF}

\* const char* response = "HTTP/1.1 200 OK\r\n" "Connection: Close\r\n" ...
response ==
    << "HTTP/1.1 200 OK\r\n", "Connection: Close\r\n",
       "Content-Type: text/html\r\n", "\r\n" >>

Min(a, b) == IF a < b THEN a ELSE b

\* the contents index.html may have
FileContents == { <<"h">>, <<"h", "i">> }

(* ------------------------------ inputs --------------------------------- *)
RECURSIVE Pad(_, _, _)
Pad(s, b, n) == IF Len(s) >= n THEN s ELSE Pad(Append(s, b), b, n)

\* what a client may have sent by the time the server reads
Requests ==
    { <<"A">>,
      <<CR, LF>>,
      <<"G", SP, "/", SP, "H", CR, LF>>,
      <<"P", SP, "/", "x", SP, "H">>,
      <<"A", LF, "B", SP, "C">>,
      <<"A", NUL, SP, "B", SP, "C">>,
      Pad(<<"A", SP>>, "B", BufLen) }

VARIABLES
    pc,          \* "wait": in epoll_wait; "handle": in the for loop; "exited"
    events,      \* struct epoll_event events[]: the batch of the last wait
    i,           \* the for loop's index (events handled of this batch)
    open,        \* accepted connection descriptors not yet closed
    registered,  \* descriptors in the epoll interest list
    rdllist,     \* the epoll ready list, in the order descriptors got ready
    backlog,     \* connections pending on the listening socket
    clients,     \* clients that have not connected yet
    sock,        \* per connection: whether unread bytes are pending, and
                 \* the peer's state ("open", "fin" or "rst")
    cnt,         \* per connection: the calls made on it since its accept
    state,       \* per connection: its lifecycle state
    ops,         \* the calls of the loop step just taken, in order
    last,        \* the loop step just taken: descriptor, outcome, bytes read
                 \* and written, and the results of send and sendfile
    first,       \* the request and the reply of the first connection that
                 \* was sent the whole header and the whole file
    fileContent, \* the bytes of <docroot>index.html
    argv,        \* the words of the command line after the program name
    optind,      \* getopt's index of the next word of argv
    files,       \* the configuration files: per path, whether fopen finds
                 \* it and the lines it holds
    lines,       \* the lines getline() has returned so far
    configuration_options,  \* struct configuration_options_t
    listener,    \* the listening socket: "none", "socket", "bound",
                 \* "listening", or "undefined" after undefined behaviour
    status,      \* "running", or how the process ended
    heap,        \* per block of the allocator: whether it is allocated, and
                 \* the free() calls made on it since malloc returned it
    ptr,         \* the pointer variables of a caller of the memory module
    trace        \* the last calls of allocate_memory and safe_free

startVars == << argv, optind, files, lines, configuration_options, listener,
                status >>

vars == << pc, events, i, open, registered, rdllist, backlog, clients, sock,
           cnt, state, ops, last, first, fileContent, argv, optind, files,
           lines, configuration_options, listener, status, heap, ptr,
           trace >>

memVars == << heap, ptr, trace >>

(* ------------------------ start-up: the inputs ------------------------- *)
\* a string of the program is the sequence of its symbols; a symbol is a
\* delimiter byte or a run of bytes that are no delimiters
DEFAULT_CONFIGURATION_FILENAME == << "samples/conf/serverd.conf" >>
DEFAULT_HOSTNAME == << "localhost" >>
DEFAULT_PORT == << "8080" >>

\* the value of a pointer member that was never assigned (the record comes
\* from malloc)
Uninitialized == << "uninitialized" >>

\* the command lines the server is started with
CommandLines ==
    { <<>>,
      << "-H", "h1" >>,
      << "-p", "p1" >>,
      << "--hostname", "h1", "--port", "p1" >>,
      << "index.html", "-p", "p1" >>,
      << "-p" >>,
      << "-h" >>,
      << "--help" >>,
      << "--version" >>,
      << "-v" >>,
      << "-x" >>,
      << "-f", "alt.conf" >>,
      << "--configuration-filename", "alt.conf" >>,
      << "--configuration-filename", "none.conf" >> }

\* the lines configuration files are made of
HostLine == << "hostname", "=", "h2", LF >>
PortLine == << "port", "=", "p2", LF >>
RootLine == << "docroot", "=", "d2", LF >>
FooLine == << "foo", "=", "bar", LF >>

\* the contents the default configuration file may have
ConfigurationFiles ==
    { <<>>,
      << HostLine, PortLine, RootLine >>,
      << << "port", "=", "p2", "#", "c", LF >> >>,
      << << "port", "=", "p2", SP, "#", "c", LF >> >>,
      << << "#", "c", LF >>, << LF >>, << SP, "#", "#", LF >>, PortLine >>,
      << FooLine >>,
      << PortLine, FooLine >>,
      << << "port", LF >> >>,
      << << "port", "=", LF >> >>,
      << << "foo", LF >> >>,
      << << "port", "=", "#", "c", LF >> >>,
      << << "port", "=", "p2" >> >>,
      << << "port", SP, "=", SP, "p2", CR, LF >> >>,
      << << "docroot", "=", "/", "srv", "/", "http", LF >> >>,
      << << "docroot", "=", "/", "srv", "/", "http", "/", LF >> >>,
      << << SP, SP, LF >>, << CR, LF >>, HostLine >>,
      << << TAB, LF >>, PortLine >>,
      << << TAB, "#", "c", LF >>, PortLine >> }

\* fopen() of a path that does not exist
NoFile == [found |-> FALSE, content |-> <<>>]
File(content) == [found |-> TRUE, content |-> content]

\* the paths the command lines name, and what is at each of them
Paths == { DEFAULT_CONFIGURATION_FILENAME, << "alt.conf" >>, << "none.conf" >> }
FileSystems ==
    { [path \in Paths |->
          IF path = DEFAULT_CONFIGURATION_FILENAME THEN f
          ELSE IF path = << "alt.conf" >> THEN File(<< RootLine >>)
          ELSE NoFile] :
      f \in { File(c) : c \in ConfigurationFiles } \cup { NoFile } }

(* ------------------------------ the heap ------------------------------ *)
NULL == 0

\* the blocks malloc() has to give, and the pointer variables of the caller
Blocks == 1..MaxBlocks
PtrVars == { "p", "q" }

\* no block is allocated and every pointer variable is NULL
NoMemory ==
    /\ heap = [b \in Blocks |-> [live |-> FALSE, frees |-> 0]]
    /\ ptr = [v \in PtrVars |-> NULL]
    /\ trace = <<>>

(* ------------------------ start-up: getopt_long ------------------------ *)
\* the option string "hvH:p:" and long_options[]: the value getopt_long
\* returns for each option it knows ("0" is the val of --version)
OptionChar ==
    [w \in { "-h", "-v", "-H", "-p", "--help", "--version",
             "--configuration-filename", "--hostname", "--port" } |->
        CASE w \in { "-h", "--help" } -> "h"
          [] w = "-v" -> "v"
          [] w \in { "-H", "--hostname" } -> "H"
          [] w \in { "-p", "--port" } -> "p"
          [] w = "--configuration-filename" -> "f"
          [] w = "--version" -> "0" ]

\* the options with a colon in the option string or required_argument
RequiresArgument ==
    { "-H", "-p", "--configuration-filename", "--hostname", "--port" }

\* the words that begin with '-'
IsOption(w) == w \in DOMAIN OptionChar \cup { "-f", "-x" }

\* one call of getopt_long(argc, argv, "hvH:p:", long_options, ..) with the
\* next word at k: words that are no options are passed over, an option
\* that is not known or lacks its argument gives '?', the end of argv -1
RECURSIVE getopt_long(_, _)
getopt_long(words, k) ==
    IF k > Len(words) THEN [c |-> "-1", optarg |-> <<>>, optind |-> k]
    ELSE IF ~IsOption(words[k]) THEN getopt_long(words, k + 1)
    ELSE IF words[k] \notin DOMAIN OptionChar
    THEN [c |-> "?", optarg |-> <<>>, optind |-> k + 1]
    ELSE IF words[k] \notin RequiresArgument
    THEN [c |-> OptionChar[words[k]], optarg |-> <<>>, optind |-> k + 1]
    ELSE IF k = Len(words)
    THEN [c |-> "?", optarg |-> <<>>, optind |-> k + 1]
    ELSE [c |-> OptionChar[words[k]], optarg |-> << words[k + 1] >>,
          optind |-> k + 2]

(* --------------------- start-up: one line of the file ------------------ *)
\* the for loop over the line: once a '#' was seen every later byte is
\* overwritten with a space; the '#' itself stays
RECURSIVE BlankComment(_, _, _)
BlankComment(line, k, comment) ==
    IF k > Len(line) THEN line
    ELSE LET c == IF comment THEN SP ELSE line[k]
         IN BlankComment([line EXCEPT ![k] = c], k + 1, comment \/ c = "#")

\* strspn and strcspn from position p of a NUL-terminated string
RECURSIVE strspn(_, _, _)
strspn(str, p, accept) ==
    IF p <= Len(str) /\ str[p] \in accept THEN strspn(str, p + 1, accept)
    ELSE p

RECURSIVE strcspn(_, _, _)
strcspn(str, p, reject) ==
    IF p <= Len(str) /\ str[p] \notin reject THEN strcspn(str, p + 1, reject)
    ELSE p

\* strtok(3) scanning from p: the token, or NULL, and where the next call
\* scans from (behind the delimiter that ended the token)
NextToken(str, p, delim) ==
    LET b == strspn(str, p, delim)
        e == strcspn(str, b, delim)
    IN IF b > Len(str) THEN [null |-> TRUE, token |-> <<>>, next |-> b]
       ELSE [null |-> FALSE, token |-> SubSeq(str, b, e - 1),
             next |-> IF e > Len(str) THEN e ELSE e + 1]

\* char* option = strtok(line_buffer, " =#\r\n");
\* char* value = strtok(NULL, "\r\n");
OptionDelimiters == { SP, "=", "#", CR, LF }
ValueDelimiters == { CR, LF }

\* a loop body that finds nothing in any line
IgnoreLine(line) == [kind |-> "blank", option |-> <<>>, value |-> <<>>]

\* what the body of the while loop finds in one line
ParseLine(line) ==
    LET str == BlankComment(line, 1, FALSE)
        option == NextToken(str, 1, OptionDelimiters)
        value == NextToken(str, option.next, ValueDelimiters)
    IN IF option.null \/ option.token = <<>>
       THEN [kind |-> "blank", option |-> <<>>, value |-> <<>>]
       ELSE IF value.null \/ value.token = <<>>
       THEN [kind |-> "no_value", option |-> option.token, value |-> <<>>]
       ELSE IF option.token \in { << "hostname" >>, << "port" >>,
                                  << "docroot" >> }
       THEN [kind |-> "stored", option |-> option.token,
             value |-> value.token]
       ELSE [kind |-> "unrecognized", option |-> option.token,
             value |-> value.token]

(* ------------------------- the path of the file ----------------------- *)
\* the symbols that are one byte; every other symbol is a run of bytes
Bytes == OptionDelimiters \cup { "/", NUL }

\* snprintf(buffer, 1024, "%s%s", a, b): the bytes of a followed by the
\* bytes of b; a run that ends a and a run that begins b make one run
snprintf(a, b) ==
    IF a # <<>> /\ b # <<>> /\ a[Len(a)] \notin Bytes /\ b[1] \notin Bytes
    THEN SubSeq(a, 1, Len(a) - 1) \o << a[Len(a)] \o b[1] >> \o Tail(b)
    ELSE a \o b

\* snprintf(filename_buffer, 1024, "%s%s",
\*          configuration_options->document_root_directory, "index.html");
filename_buffer ==
    snprintf(configuration_options.document_root_directory,
             << "index.html" >>)

\* a loop step that read and wrote nothing
Step(fd, outcome) ==
    [fd |-> fd, outcome |-> outcome, request |-> <<>>, reply |-> <<>>,
     sent |-> 0, bytes_sent |-> 0]

NoCalls == [reads |-> 0, sends |-> 0, xfers |-> 0, dels |-> 0, closes |-> 0]
\* the socket accept() returns: nothing to read yet, the peer connected, and
\* O_NONBLOCK clear (the setnonblocking call is commented out, main.c:409)
FreshSock == [pending |-> FALSE, peer |-> "open", nonblock |-> FALSE]

\* the record after initialize_default_configuration(): the document root
\* is not among the members it assigns
DefaultConfiguration ==
    [configuration_filename |-> DEFAULT_CONFIGURATION_FILENAME,
     hostname |-> DEFAULT_HOSTNAME,
     port |-> DEFAULT_PORT,
     document_root_directory |-> Uninitialized]

\* the state when the loop is entered, with n clients still to connect:
\* the server was started without options, its configuration file is empty
\* and the listener is registered
Start(n) ==
    /\ argv = <<>>
    /\ optind = 1
    /\ files = [path \in Paths |->
                   IF path = << "none.conf" >> THEN NoFile
                   ELSE IF path = << "alt.conf" >> THEN File(<< RootLine >>)
                   ELSE File(<<>>)]
    /\ lines = 0
    /\ configuration_options = DefaultConfiguration
    /\ listener = "listening"
    /\ status = "running"
    /\ NoMemory
    /\ pc = "wait"
    /\ events = <<>>
    /\ i = 0
    /\ open = {}
    /\ registered = {socket_listen}
    /\ rdllist = <<>>
    /\ backlog = 0
    /\ clients = n
    /\ sock = [fd \in ConnFds |-> FreshSock]
    /\ cnt = [fd \in ConnFds |-> NoCalls]
    /\ state = [fd \in ConnFds |-> "NONE"]
    /\ ops = <<>>
    /\ last = Step(socket_listen, "none")
    /\ first = <<>>
    /\ fileContent \in FileContents

Init == Start(MaxClients)

Running == pc # "exited"

\* a step that is not a step of the for loop: ops and last describe the
\* loop step that led to the current state, if one did, or the loop step
\* that is suspended in a call
Quiet ==
    /\ IF pc = "sendfile" THEN UNCHANGED << ops, last >>
       ELSE /\ ops' = <<>>
            /\ last' = Step(socket_listen, "none")
    /\ UNCHANGED startVars
    /\ UNCHANGED memVars

Range(s) == { s[k] : k \in 1..Len(s) }

(* ----------------------------- environment ----------------------------- *)
\* the ready list gets a descriptor when something happens on its socket
Enqueue(l, fd) ==
    IF fd \in Range(l) \/ fd \notin registered THEN l ELSE Append(l, fd)

ClientConnect ==
    /\ Running
    /\ clients > 0
    /\ backlog < MaxBacklog
    /\ clients' = clients - 1
    /\ backlog' = backlog + 1
    /\ rdllist' = Enqueue(rdllist, socket_listen)
    /\ Quiet
    /\ UNCHANGED << pc, events, i, open, registered, sock, cnt, state, first,
                    fileContent >>

\* the client's bytes arrive; which bytes they are shows when they are read
ClientSend(fd) ==
    /\ Running
    /\ fd \in open
    /\ sock[fd].peer = "open"
    /\ ~sock[fd].pending
    /\ sock' = [sock EXCEPT ![fd].pending = TRUE]
    /\ rdllist' = Enqueue(rdllist, fd)
    /\ Quiet
    /\ UNCHANGED << pc, events, i, open, registered, backlog, clients, cnt,
                    state, first, fileContent >>

\* the peer closes its end (FIN): unread bytes stay readable
ClientClose(fd) ==
    /\ Running
    /\ fd \in open
    /\ sock[fd].peer = "open"
    /\ sock' = [sock EXCEPT ![fd].peer = "fin"]
    /\ rdllist' = Enqueue(rdllist, fd)
    /\ Quiet
    /\ UNCHANGED << pc, events, i, open, registered, backlog, clients, cnt,
                    state, first, fileContent >>

\* the peer resets the connection (RST): unread bytes are discarded
ClientReset(fd) ==
    /\ Running
    /\ fd \in open
    /\ sock[fd].peer # "rst"
    /\ sock' = [sock EXCEPT ![fd].pending = FALSE, ![fd].peer = "rst"]
    /\ rdllist' = Enqueue(rdllist, fd)
    /\ Quiet
    /\ UNCHANGED << pc, events, i, open, registered, backlog, clients, cnt,
                    state, first, fileContent >>

(* ------------------------------ the kernel ----------------------------- *)
\* the events epoll reports for a descriptor: the listener is registered
\* for EPOLLIN (main.c:380), a connection for EPOLLIN | EPOLLET |
\* EPOLLRDHUP | EPOLLOUT | EPOLLERR (main.c:410)
Mask(fd) ==
    IF fd = socket_listen
    THEN IF backlog > 0 THEN {"EPOLLIN"} ELSE {}
    ELSE (IF sock[fd].pending \/ sock[fd].peer # "open"
          THEN {"EPOLLIN"} ELSE {})
         \cup (IF sock[fd].peer # "rst" THEN {"EPOLLOUT"} ELSE {})
         \cup (IF sock[fd].peer # "open" THEN {"EPOLLRDHUP"} ELSE {})
         \cup (IF sock[fd].peer = "rst" THEN {"EPOLLERR", "EPOLLHUP"} ELSE {})

\* connections registered without EPOLLET
LevelTriggered == { "EPOLLIN", "EPOLLRDHUP", "EPOLLOUT", "EPOLLERR" }

\* ev.events = EPOLLIN | EPOLLET | EPOLLRDHUP | EPOLLOUT | EPOLLERR;
ConnInterest == { "EPOLLIN", "EPOLLET", "EPOLLRDHUP", "EPOLLOUT", "EPOLLERR" }

\* the events a descriptor is registered for; the listener: ev.events =
\* EPOLLIN
Interest(fd) == IF fd = socket_listen THEN { "EPOLLIN" } ELSE ConnInterest

\* the entries of the ready list that have something to report
Reportable == SelectSeq(rdllist, LAMBDA fd : Mask(fd) # {})

Take(s, n) == SubSeq(s, 1, Min(n, Len(s)))
Drop(s, n) == SubSeq(s, Min(n, Len(s)) + 1, Len(s))

\* the lowest descriptor number not in use
LowestFree == CHOOSE fd \in ConnFds \ open : \A g \in ConnFds \ open : fd <= g

(* ------------------------------ the loop ------------------------------- *)
\* int nfds = epoll_wait(epfd, events, EPOLL_MAX_EVENTS, -1): blocks until
\* a registered descriptor is ready, then returns the first ready ones.
\* An edge-triggered entry leaves the ready list when it is reported; the
\* level-triggered listener is queued again.
maxevents == Min(EPOLL_MAX_EVENTS, MaxBatch)

Wait ==
    /\ pc = "wait"
    /\ Reportable # <<>>
    /\ LET batch == Take(Reportable, maxevents)
           rest == Drop(Reportable, maxevents)
       IN /\ events' = [k \in 1..Len(batch) |->
                           [fd |-> batch[k], events |-> Mask(batch[k])]]
          /\ rdllist' = rest \o SelectSeq(batch, LAMBDA fd :
                                             "EPOLLET" \notin Interest(fd))
    /\ i' = 0
    /\ pc' = "handle"
    /\ Quiet
    /\ UNCHANGED << open, registered, backlog, clients, sock, cnt, state, first,
                    fileContent >>

\* fatal_error() and return EXIT_FAILURE: the process ends where it stands
\* in the batch, and the kernel closes every descriptor it held, which
\* empties the epoll instance and resets the connections, the pending ones
\* too
Exit(step, calls) ==
    /\ pc' = "exited"
    /\ last' = step
    /\ ops' = calls
    /\ UNCHANGED << events, i >>
    /\ status' = IF step.outcome = "sigpipe" THEN "SIGPIPE" ELSE "EXIT_FAILURE"
    /\ UNCHANGED << argv, optind, files, lines, configuration_options,
                    listener >>
    /\ UNCHANGED memVars
    /\ open' = {}
    /\ registered' = {}
    /\ rdllist' = <<>>
    /\ backlog' = 0
    /\ sock' = [fd \in ConnFds |-> FreshSock]
    /\ UNCHANGED << clients, first, fileContent >>

\* errno after epoll_wait returned -1: EINTR when a signal interrupted the
\* wait (a handler ran, or the process was stopped and continued), EBADF
\* for the other failures
WaitErrors == {"EINTR", "EBADF"}

\* if (nfds == -1) fatal_error(...): errno is only printed
WaitFails(errno) ==
    /\ pc = "wait"
    /\ Exit(Step(socket_listen, IF errno = "EINTR" THEN "wait_interrupted"
                                ELSE "wait_failed"),
            << <<"epoll_wait", socket_listen>> >>)
    /\ UNCHANGED << cnt, state >>

\* a for loop that breaks after the first event of a batch
BreakAfterFirstEvent ==
    /\ i' = Len(events)
    /\ pc' = "wait"
    /\ UNCHANGED events
    /\ UNCHANGED startVars
    /\ UNCHANGED memVars

\* ++i of the for loop, and the return to the while loop after the last event
NextEvent ==
    /\ i' = i + 1
    /\ pc' = IF i + 1 = Len(events) THEN "wait" ELSE "handle"
    /\ UNCHANGED events
    /\ UNCHANGED startVars
    /\ UNCHANGED memVars

InLoop == pc = "handle" /\ i < Len(events)

\* a loop that takes the events of a batch from the last one down
LastFirst == events[Len(events) - i]

\* events[i]
ev == events[i + 1]

(* --------------------------- the listener ------------------------------ *)
\* an interest list the accepted descriptor is not added to
RegisterNothing(fd) == registered

\* the interest list after epoll_ctl(epfd, EPOLL_CTL_ADD, fd, &ev)
Register(fd) == registered \cup {fd}

\* events[i].data.fd == socket_listen: accept, register, getnameinfo.
\* accept fails when the kernel says so and when no descriptor is free.
Accept ==
    /\ InLoop
    /\ ev.fd = socket_listen
    /\ backlog > 0
    /\ open # ConnFds
    /\ LET fd == LowestFree
       IN /\ open' = open \cup {fd}
          /\ registered' = Register(fd)
          /\ rdllist' = IF fd \in Range(rdllist) \/ fd \notin registered'
                        THEN rdllist ELSE Append(rdllist, fd)
          /\ sock' = [sock EXCEPT ![fd] = FreshSock]
          /\ cnt' = [cnt EXCEPT ![fd] = NoCalls]
          /\ state' = [state EXCEPT ![fd] = "ACCEPTED"]
          /\ ops' = << <<"accept", fd>>,
                       <<"epoll_ctl_add", fd, Interest(fd)>> >>
          /\ last' = Step(fd, "accepted")
    /\ backlog' = backlog - 1
    /\ NextEvent
    /\ UNCHANGED << clients, first, fileContent >>

\* a failed accept after which the loop goes on with the next event
AcceptFailsIsSkipped ==
    /\ InLoop
    /\ ev.fd = socket_listen
    /\ ops' = << <<"accept", socket_listen>> >>
    /\ last' = Step(socket_listen, "accept_failed")
    /\ NextEvent
    /\ UNCHANGED << open, registered, rdllist, backlog, clients, sock, cnt,
                    state, first, fileContent >>

\* if (new_connection_socket == -1) fatal_error(...)
AcceptFails ==
    /\ InLoop
    /\ ev.fd = socket_listen
    /\ Exit(Step(socket_listen, "accept_failed"),
            << <<"accept", socket_listen>> >>)
    /\ UNCHANGED << cnt, state >>

\* accept succeeded and epoll_ctl(EPOLL_CTL_ADD) or getnameinfo failed:
\* fatal_error() with the new descriptor open
AcceptedThenFatal(registers) ==
    /\ InLoop
    /\ ev.fd = socket_listen
    /\ backlog > 0
    /\ open # ConnFds
    /\ LET fd == LowestFree
       IN /\ cnt' = [cnt EXCEPT ![fd] = NoCalls]
          /\ state' = [state EXCEPT ![fd] = "FAILED"]
          /\ Exit(Step(fd, IF registers THEN "getnameinfo_failed"
                           ELSE "epoll_ctl_failed"),
                  << <<"accept", fd>>,
                     <<"epoll_ctl_add", fd, Interest(fd)>> >>)

(* ------------------------------ strtok --------------------------------- *)
\* char request[1024] = { 0 } after read(fd, request, 1024) returned n bytes
Buffer(data) ==
    [k \in 1..BufLen |-> IF k <= Len(data) THEN data[k] ELSE NUL]

\* strspn(s, delim): the first position at or after p that holds no delimiter
RECURSIVE SkipDelims(_, _)
SkipDelims(buf, p) ==
    IF p > BufLen THEN p
    ELSE IF buf[p] \in Delims THEN SkipDelims(buf, p + 1) ELSE p

\* strpbrk(token, delim), else the terminating NUL
RECURSIVE FindEnd(_, _)
FindEnd(buf, p) ==
    IF p > BufLen THEN p
    ELSE IF buf[p] \in Delims \cup {NUL} THEN p ELSE FindEnd(buf, p + 1)

\* one strtok call that starts scanning at p.  ret is "TOKEN", "NULL", or,
\* when the scan leaves the array before it meets a NUL, "OOB" (no token
\* begun inside the array) or "OOB_TOKEN" (a token begun inside the array
\* whose end lies outside it)
strtok(buf, p) ==
    LET s == SkipDelims(buf, p)
    IN IF s > BufLen THEN [ret |-> "OOB", token |-> <<>>, olds |-> s]
       ELSE IF buf[s] = NUL THEN [ret |-> "NULL", token |-> <<>>, olds |-> s]
       ELSE LET e == FindEnd(buf, s)
            IN IF e > BufLen
               THEN [ret |-> "OOB_TOKEN", token |-> SubSeq(buf, s, BufLen),
                     olds |-> e]
               ELSE [ret |-> "TOKEN", token |-> SubSeq(buf, s, e - 1),
                     olds |-> IF buf[e] = NUL THEN e ELSE e + 1]

\* the calls request_method = strtok(request, ..), request_uri =
\* strtok(NULL, ..), request_version = strtok(NULL, ..), up to the first
\* that does not return a token inside the array
RECURSIVE StrtokCalls(_, _, _)
StrtokCalls(buf, p, k) ==
    IF k = 0 THEN <<>>
    ELSE LET r == strtok(buf, p)
         IN IF r.ret = "TOKEN"
            THEN <<r>> \o StrtokCalls(buf, r.olds, k - 1)
            ELSE <<r>>

\* how many of the three calls may return non-NULL.  A scan that leaves the
\* array reads whatever follows it on the stack: the token it is in ends
\* somewhere, and the calls after it may or may not find further tokens.
TokensFound(buf) ==
    LET calls == StrtokCalls(buf, 1, 3)
        n == Cardinality({k \in 1..Len(calls) : calls[k].ret = "TOKEN"})
        r == calls[Len(calls)]
    IN IF r.ret = "OOB_TOKEN" THEN (n + 1)..3
       ELSE IF r.ret = "OOB" THEN n..3
       ELSE {n}

\* TokensFound for each request the server may read
Found ==
    [data \in Requests \cup {<<>>} |->
        TokensFound(Buffer(Take(data, BufLen)))]

\* the tokens delimited by space, CR or LF in the bytes read
RECURSIVE WireTokens(_)
WireTokens(data) ==
    IF data = <<>> THEN 0
    ELSE IF data[1] \in Delims THEN WireTokens(Tail(data))
    ELSE IF Len(data) = 1 \/ data[2] \in Delims THEN 1 + WireTokens(Tail(data))
    ELSE WireTokens(Tail(data))

(* --------------------------- a connection ------------------------------ *)
IsConnEvent == InLoop /\ ev.fd # socket_listen

\* a loop that closes a connection whose event carries nothing to read
EvictIdle ==
    /\ InLoop
    /\ ev.fd # socket_listen
    /\ "EPOLLIN" \notin ev.events
    /\ ops' = << <<"epoll_ctl_del", ev.fd>>, <<"close", ev.fd>> >>
    /\ last' = Step(ev.fd, "ignored")
    /\ open' = open \ {ev.fd}
    /\ registered' = registered \ {ev.fd}
    /\ rdllist' = SelectSeq(rdllist, LAMBDA g : g # ev.fd)
    /\ NextEvent
    /\ UNCHANGED << backlog, clients, sock, cnt, state, first, fileContent >>

\* if (events[i].events & EPOLLIN) { ... } has no else: any other event of
\* a connection is dropped
IgnoreEvent ==
    /\ IsConnEvent
    /\ "EPOLLIN" \notin ev.events
    /\ ops' = <<>>
    /\ last' = Step(ev.fd, "ignored")
    /\ NextEvent
    /\ UNCHANGED << open, registered, rdllist, backlog, clients, sock, cnt,
                    state, first, fileContent >>

\* ssize_t bytes_received = read(events[i].data.fd, request, 1024), where
\* data are the bytes the peer has sent
ReadBytes(data) == Take(data, BufLen)
bytes_received(fd, data) ==
    IF sock[fd].peer = "rst" THEN -1 ELSE Len(ReadBytes(data))

\* the bytes that may be waiting on the socket
Arrived(fd) == IF sock[fd].pending THEN Requests ELSE {<<>>}

\* a branch that is taken for every event of a connection
ReadableAnyEvent(fd) ==
    /\ IsConnEvent
    /\ ev.fd = fd
    /\ sock[fd].pending \/ sock[fd].peer # "open"

\* the read returns at once: there are bytes, or the peer is gone
Readable(fd) ==
    /\ IsConnEvent
    /\ ev.fd = fd
    /\ "EPOLLIN" \in ev.events
    /\ sock[fd].pending \/ sock[fd].peer # "open"

\* the request is refused when one of the three strtok calls returns NULL
Malformed(found) == found < 3

\* the bytes a connection gets for a request: sent is send()'s result and
\* bytes_sent is sendfile()'s; neither the header nor the body looks at the
\* request
HeaderSent(sent) == IF sent = -1 THEN <<>> ELSE Take(response, sent)

\* a reply that carries the first byte of the request between header and body
EchoReply(request, file, sent, bytes_sent) ==
    HeaderSent(sent) \o Take(request, 1) \o Take(file, bytes_sent)

Reply(request, file, sent, bytes_sent) ==
    HeaderSent(sent) \o Take(file, bytes_sent)

\* what send(fd, response, strlen(response), 0) may return
SendResults == {-1, 1, Len(response)}

\* status.st_size after fstat(f, &status)
st_size == Len(fileContent)

\* what sendfile(fd, f, NULL, status.st_size) may return short of an error
SendfileResults == 0..st_size

\* the two calls in the other order
CloseThenDeregister(fd) == << <<"close", fd>>, <<"epoll_ctl_del", fd>> >>

\* epoll_ctl(epfd, EPOLL_CTL_DEL, events[i].data.fd, NULL);
\* close(current_socket);
CloseCalls(fd) == << <<"epoll_ctl_del", fd>>, <<"close", fd>> >>

\* a dispatcher that opens the file before it sends the header
OpenBeforeSend(fd) ==
    << <<"open", fd>>, <<"send", fd>>, <<"fstat", fd>>, <<"sendfile", fd>>,
       <<"close_file", fd>> >>

\* send(fd, response, ..); f = open(filename_buffer, O_RDONLY | O_NONBLOCK);
\* fstat(f, &status); sendfile(fd, f, NULL, status.st_size); close(f);
FileCalls(fd) ==
    << <<"send", fd>>, <<"open", fd>>, <<"fstat", fd>>, <<"sendfile", fd>>,
       <<"close_file", fd>> >>

\* a set of descriptors that fd is left in
NotClosed(S, fd) == S

\* a close that takes the listening socket along
ClosedWithListener(S, fd) == S \ {fd, socket_listen}

\* a set of descriptors (the open ones, the registered ones) after fd was
\* deregistered and closed at the end of the step
Closed(S, fd) == S \ {fd}

\* a loop step that read a request
ReadStep(fd, outcome, data, sent, bytes_sent) ==
    [fd |-> fd, outcome |-> outcome, request |-> ReadBytes(data),
     reply |-> IF sent = 0 THEN <<>>
               ELSE Reply(ReadBytes(data), fileContent, sent, bytes_sent),
     sent |-> sent, bytes_sent |-> bytes_sent]

\* if (bytes_received == -1) fatal_error(...)
ReadFails(fd) ==
    /\ Readable(fd)
    /\ bytes_received(fd, <<>>) = -1
    /\ cnt' = [cnt EXCEPT ![fd].reads = @ + 1]
    /\ state' = [state EXCEPT ![fd] = "FAILED"]
    /\ Exit(Step(fd, "read_failed"), << <<"read", fd>> >>)

\* the process ends in the middle of the step for fd, after the read
ExitAfterRead(fd, step, calls) ==
    /\ state' = [state EXCEPT ![fd] = "FAILED"]
    /\ Exit(step, << <<"read", fd>> >> \o calls)

\* request_method, request_uri or request_version is NULL: fatal_error().
\* A read of zero bytes leaves the buffer all NUL and ends here too.
MalformedRequest(fd, data) ==
    /\ Readable(fd)
    /\ data \in Arrived(fd)
    /\ bytes_received(fd, data) >= 0
    /\ \E found \in Found[data] : Malformed(found)
    /\ cnt' = [cnt EXCEPT ![fd].reads = @ + 1]
    /\ ExitAfterRead(fd,
           ReadStep(fd, IF bytes_received(fd, data) = 0 THEN "read_eof"
                        ELSE "bad_request", data, 0, 0),
           <<>>)

\* the three tokens were found
Parsed(fd, data) ==
    /\ Readable(fd)
    /\ data \in Arrived(fd)
    /\ bytes_received(fd, data) >= 0
    /\ \E found \in Found[data] : ~Malformed(found)

\* send() on a connection the peer has reset raises SIGPIPE, which the
\* process neither ignores nor handles
SendKilled(fd, data) ==
    /\ Parsed(fd, data)
    /\ cnt' = [cnt EXCEPT ![fd].reads = @ + 1, ![fd].sends = @ + 1]
    /\ ExitAfterRead(fd, ReadStep(fd, "sigpipe", data, 0, 0),
                     << <<"send", fd>> >>)

\* the exits after the header was sent: open() == -1, fstat() == -1 and
\* sendfile() == -1 each return EXIT_FAILURE from main
OpenFails(fd, data, sent) ==
    /\ Parsed(fd, data)
    /\ cnt' = [cnt EXCEPT ![fd].reads = @ + 1, ![fd].sends = @ + 1]
    /\ ExitAfterRead(fd, ReadStep(fd, "open_failed", data, sent, 0),
                     << <<"send", fd>>, <<"open", fd>> >>)

StatFails(fd, data, sent) ==
    /\ Parsed(fd, data)
    /\ cnt' = [cnt EXCEPT ![fd].reads = @ + 1, ![fd].sends = @ + 1]
    /\ ExitAfterRead(fd, ReadStep(fd, "stat_failed", data, sent, 0),
                     << <<"send", fd>>, <<"open", fd>>, <<"fstat", fd>> >>)

SendfileFails(fd, data, sent) ==
    /\ Parsed(fd, data)
    /\ cnt' = [cnt EXCEPT ![fd].reads = @ + 1, ![fd].sends = @ + 1,
                          ![fd].xfers = @ + 1]
    /\ ExitAfterRead(fd, ReadStep(fd, "sendfile_failed", data, sent, 0),
                     << <<"send", fd>>, <<"open", fd>>, <<"fstat", fd>>,
                        <<"sendfile", fd>> >>)

\* the connection was sent all of the header and all of the file
Complete(step) ==
    /\ step.outcome = "served"
    /\ step.sent = Len(response)
    /\ step.bytes_sent = st_size

\* the path to the end of the block: send, open, fstat, sendfile, close(f),
\* epoll_ctl(EPOLL_CTL_DEL), close.  Neither the result of send nor a short
\* count from sendfile is looked at.
Serve(fd, data, sent, bytes_sent) ==
    /\ Parsed(fd, data)
    /\ cnt' = [cnt EXCEPT ![fd] =
                  [reads |-> @.reads + 1, sends |-> @.sends + 1,
                   xfers |-> @.xfers + 1, dels |-> @.dels + 1,
                   closes |-> @.closes + 1]]
    /\ state' = [state EXCEPT ![fd] = "RESPONSE_SENT"]
    /\ ops' = << <<"read", fd>> >> \o FileCalls(fd) \o CloseCalls(fd)
    /\ last' = ReadStep(fd, "served", data, sent, bytes_sent)
    /\ first' = IF first = <<>> /\ Complete(last')
                THEN << [request |-> last'.request, reply |-> last'.reply] >>
                ELSE first
    /\ open' = Closed(open, fd)
    /\ registered' = Closed(registered, fd)
    /\ rdllist' = SelectSeq(rdllist, LAMBDA g : g # fd)
    /\ sock' = [sock EXCEPT ![fd] = FreshSock]
    /\ NextEvent
    /\ UNCHANGED << backlog, clients, fileContent >>

(* ----------------------- a transfer that blocks ------------------------ *)
\* the connection's socket is in blocking mode (O_NONBLOCK is never set on
\* it), so sendfile() sleeps while the send buffer is full and the peer
\* does not read: the process is suspended in the call, with bytes_sent
\* bytes of the file written so far
TransferBlocks(fd, data, sent, bytes_sent) ==
    /\ Parsed(fd, data)
    /\ ~sock[fd].nonblock
    /\ sock[fd].peer # "rst"
    /\ bytes_sent < st_size
    /\ pc' = "sendfile"
    /\ cnt' = [cnt EXCEPT ![fd].reads = @ + 1, ![fd].sends = @ + 1,
                          ![fd].xfers = @ + 1]
    /\ sock' = [sock EXCEPT ![fd].pending = FALSE]
    /\ ops' = << <<"read", fd>>, <<"send", fd>>, <<"open", fd>>,
                 <<"fstat", fd>>, <<"sendfile", fd>> >>
    /\ last' = ReadStep(fd, "blocked", data, sent, bytes_sent)
    /\ UNCHANGED << events, i, open, registered, rdllist, backlog, clients,
                    state, first, fileContent >>
    /\ UNCHANGED startVars
    /\ UNCHANGED memVars

\* the peer read, and sendfile() returns what it wrote in all: close(f),
\* epoll_ctl(EPOLL_CTL_DEL), close, and on to the next event
TransferResumes(bytes_sent) ==
    /\ pc = "sendfile"
    /\ bytes_sent \in last.bytes_sent..st_size
    /\ LET fd == ev.fd
       IN /\ cnt' = [cnt EXCEPT ![fd].dels = @ + 1, ![fd].closes = @ + 1]
          /\ state' = [state EXCEPT ![fd] = "RESPONSE_SENT"]
          /\ ops' = ops \o << <<"close_file", fd>> >> \o CloseCalls(fd)
          /\ last' = [last EXCEPT
                         !.outcome = "served",
                         !.bytes_sent = bytes_sent,
                         !.reply = Reply(last.request, fileContent, last.sent,
                                         bytes_sent)]
          /\ first' = IF first = <<>> /\ Complete(last')
                      THEN << [request |-> last'.request,
                               reply |-> last'.reply] >>
                      ELSE first
          /\ open' = Closed(open, fd)
          /\ registered' = Closed(registered, fd)
          /\ rdllist' = SelectSeq(rdllist, LAMBDA g : g # fd)
          /\ sock' = [sock EXCEPT ![fd] = FreshSock]
    /\ NextEvent
    /\ UNCHANGED << backlog, clients, fileContent >>

\* the peer reset the connection and sendfile() returns -1: return
\* EXIT_FAILURE
TransferAborts ==
    /\ pc = "sendfile"
    /\ state' = [state EXCEPT ![ev.fd] = "FAILED"]
    /\ Exit([last EXCEPT !.outcome = "sendfile_failed"], ops)
    /\ UNCHANGED cnt

(* --------------------------- specification ----------------------------- *)
Next ==
    \/ ClientConnect
    \/ \E fd \in ConnFds : ClientSend(fd)
    \/ \E fd \in ConnFds : ClientClose(fd)
    \/ \E fd \in ConnFds : ClientReset(fd)
    \/ Wait
    \/ \E errno \in WaitErrors : WaitFails(errno)
    \/ Accept
    \/ AcceptFails
    \/ \E registers \in BOOLEAN : AcceptedThenFatal(registers)
    \/ IgnoreEvent
    \/ \E fd \in ConnFds : ReadFails(fd)
    \/ \E fd \in ConnFds, data \in Requests \cup {<<>>} :
          MalformedRequest(fd, data)
    \/ \E fd \in ConnFds, data \in Requests : SendKilled(fd, data)
    \/ \E fd \in ConnFds, data \in Requests, sent \in SendResults :
          OpenFails(fd, data, sent)
    \/ \E fd \in ConnFds, data \in Requests, sent \in SendResults :
          StatFails(fd, data, sent)
    \/ \E fd \in ConnFds, data \in Requests, sent \in SendResults :
          SendfileFails(fd, data, sent)
    \/ \E fd \in ConnFds, data \in Requests, sent \in SendResults,
          bytes_sent \in SendfileResults :
          Serve(fd, data, sent, bytes_sent)

Spec == Init /\ [][Next]_vars

\* the loop with the calls that may put the process to sleep
NextBlocking ==
    \/ Next
    \/ \E fd \in ConnFds, data \in Requests, sent \in SendResults,
          bytes_sent \in SendfileResults :
          TransferBlocks(fd, data, sent, bytes_sent)
    \/ \E bytes_sent \in SendfileResults : TransferResumes(bytes_sent)
    \/ TransferAborts

BlockingSpec == Init /\ [][NextBlocking]_vars

(* ------------------------- start-up: the steps ------------------------- *)
\* the loop's variables while the process starts up
Idle == UNCHANGED << events, i, open, rdllist, backlog, clients, sock, cnt,
                     state, ops, last, first, fileContent, heap, ptr, trace >>

\* the process starts: main() calls initialize_server_configuration(), which
\* applies the defaults
StartInit ==
    /\ argv \in CommandLines
    /\ optind = 1
    /\ files \in FileSystems
    /\ lines = 0
    /\ configuration_options = DefaultConfiguration
    /\ listener = "none"
    /\ status = "running"
    /\ NoMemory
    /\ pc = "options"
    /\ events = <<>>
    /\ i = 0
    /\ open = {}
    /\ registered = {}
    /\ rdllist = <<>>
    /\ backlog = 0
    /\ clients = 0
    /\ sock = [fd \in ConnFds |-> FreshSock]
    /\ cnt = [fd \in ConnFds |-> NoCalls]
    /\ state = [fd \in ConnFds |-> "NONE"]
    /\ ops = <<>>
    /\ last = Step(socket_listen, "none")
    /\ first = <<>>
    /\ fileContent \in { << "h" >> }

\* exit(), a return from main, or a signal that kills the process
Terminate(how) ==
    /\ pc' = "exited"
    /\ status' = how
    /\ UNCHANGED registered
    /\ Idle

\* one turn of the while loop of parse_command_line_configuration_options:
\* getopt_long and the switch on what it returned
ParseOption ==
    /\ pc = "options"
    /\ LET r == getopt_long(argv, optind)
       IN /\ optind' = r.optind
          /\ CASE r.c = "-1" ->
                    /\ pc' = "file"
                    /\ UNCHANGED << configuration_options, status, registered >>
                    /\ Idle
               [] r.c \in { "h", "0" } ->
                    /\ Terminate("EXIT_SUCCESS")
                    /\ UNCHANGED configuration_options
               [] r.c = "f" ->
                    /\ configuration_options' =
                          [configuration_options EXCEPT
                              !.configuration_filename = r.optarg]
                    /\ UNCHANGED << pc, status, registered >>
                    /\ Idle
               [] r.c = "H" ->
                    /\ configuration_options' =
                          [configuration_options EXCEPT !.hostname = r.optarg]
                    /\ UNCHANGED << pc, status, registered >>
                    /\ Idle
               [] r.c = "p" ->
                    /\ configuration_options' =
                          [configuration_options EXCEPT !.port = r.optarg]
                    /\ UNCHANGED << pc, status, registered >>
                    /\ Idle
               [] r.c = "?" ->
                    /\ UNCHANGED << pc, configuration_options, status,
                                    registered >>
                    /\ Idle
               [] OTHER ->
                    /\ Terminate("EXIT_FAILURE")
                    /\ UNCHANGED configuration_options
    /\ UNCHANGED << argv, files, lines, listener >>

\* the file parse_configuration_file_options reads
configuration_file == files[configuration_options.configuration_filename]

\* fopen(configuration_options->configuration_filename, "r"), fatal when it
\* returns NULL
OpenConfigurationFile ==
    /\ pc = "file"
    /\ IF configuration_file.found
       THEN /\ pc' = "lines"
            /\ UNCHANGED << status, registered >>
            /\ Idle
       ELSE Terminate("EXIT_FAILURE")
    /\ UNCHANGED << argv, optind, files, lines, configuration_options,
                    listener >>

\* the line the next getline() returns
NextLine == ParseLine(configuration_file.content[lines + 1])

\* the member of the record an option of the file is stored in
Member(option) ==
    CASE option = << "hostname" >> -> "hostname"
      [] option = << "port" >> -> "port"
      [] option = << "docroot" >> -> "document_root_directory"

\* a file that does not touch a member the command line has set
KeepIfGiven(record, option, value) ==
    IF record[Member(option)] \in { DEFAULT_HOSTNAME, DEFAULT_PORT,
                                    Uninitialized }
    THEN [record EXCEPT ![Member(option)] = value]
    ELSE record

\* configuration_options->hostname = value_string; and likewise port and
\* document_root_directory: the assignment does not look at the old value
Stored(record, option, value) == [record EXCEPT ![Member(option)] = value]

\* value_string = allocate_memory(strlen(value)); strcpy(value_string,
\* value): the buffer is one byte short of the string and its terminator
Allocated(value) == Len(value)
Copied(value) == Len(value) + 1

\* one turn of the while loop over the lines of the file: a line without an
\* option is passed over, an option without a value and an option that is
\* not known are fatal, a known option is stored
ReadLine ==
    /\ pc = "lines"
    /\ lines < Len(configuration_file.content)
    /\ lines' = lines + 1
    /\ CASE NextLine.kind = "blank" ->
              /\ UNCHANGED << pc, configuration_options, status, registered >>
              /\ Idle
         [] NextLine.kind = "stored" ->
              /\ configuration_options' =
                    Stored(configuration_options, NextLine.option,
                           NextLine.value)
              /\ UNCHANGED << pc, status, registered >>
              /\ Idle
         [] OTHER ->
              /\ Terminate("EXIT_FAILURE")
              /\ UNCHANGED configuration_options
    /\ UNCHANGED << argv, optind, files, listener >>

\* the strcpy wrote past the end of value_string: the heap is damaged and
\* the allocator may end the process when it notices
CopyOverflows ==
    /\ pc = "lines"
    /\ lines < Len(configuration_file.content)
    /\ NextLine.kind \in { "stored", "unrecognized" }
    /\ Copied(NextLine.value) > Allocated(NextLine.value)
    /\ lines' = lines + 1
    /\ Terminate("SIGABRT")
    /\ UNCHANGED << argv, optind, files, configuration_options, listener >>

\* getline() returns -1 at the end of the file: free, fclose, and
\* initialize_server_configuration returns the record to main
EndOfFile ==
    /\ pc = "lines"
    /\ lines = Len(configuration_file.content)
    /\ pc' = "daemon"
    /\ UNCHANGED << status, registered >>
    /\ Idle
    /\ UNCHANGED startVars

\* umask, fork (the parent returns, the model follows the child), setsid,
\* sigaction(SIGHUP), the close of every descriptor, openlog; fork and
\* sigaction are fatal when they fail
Daemonize(ok) ==
    /\ pc = "daemon"
    /\ IF ok
       THEN /\ pc' = "listener"
            /\ UNCHANGED << status, registered >>
            /\ Idle
       ELSE Terminate("EXIT_FAILURE")
    /\ UNCHANGED << argv, optind, files, lines, configuration_options,
                    listener >>

\* how a call of initialize_listener_socket may go: every call succeeds, or
\* the first call to fail is getaddrinfo, socket, bind or listen
ListenerResults ==
    { "ok", "getaddrinfo_failed", "socket_failed", "bind_failed",
      "listen_failed" }

\* after a failed getaddrinfo(), whose result is not looked at, bind_address
\* is an uninitialized pointer and reading through it is undefined: the
\* process may be killed, socket() or bind() may fail on what was read, or
\* the function may return a socket made from it
UndefinedResults == { "SIGSEGV", "EXIT_FAILURE", "returned" }

\* socket_listen = initialize_listener_socket(hostname, port): socket_,
\* bind_ and listen_ call fatal_error when their call returns -1
initialize_listener_socket(result, undefined) ==
    /\ pc = "listener"
    /\ CASE result = "ok" ->
              /\ listener' = "listening"
              /\ pc' = "epoll"
              /\ UNCHANGED << status, registered >>
              /\ Idle
         [] result = "getaddrinfo_failed" ->
              /\ listener' = "undefined"
              /\ IF undefined = "returned"
                 THEN /\ pc' = "epoll"
                      /\ UNCHANGED << status, registered >>
                      /\ Idle
                 ELSE Terminate(undefined)
         [] result = "socket_failed" ->
              /\ listener' = "none"
              /\ Terminate("EXIT_FAILURE")
         [] result = "bind_failed" ->
              /\ listener' = "socket"
              /\ Terminate("EXIT_FAILURE")
         [] result = "listen_failed" ->
              /\ listener' = "bound"
              /\ Terminate("EXIT_FAILURE")
    /\ UNCHANGED << argv, optind, files, lines, configuration_options >>

\* epoll_create and epoll_ctl(epfd, EPOLL_CTL_ADD, socket_listen, &ev), each
\* fatal when it fails; then while (TRUE)
EnterLoop(ok) ==
    /\ pc = "epoll"
    /\ IF ok
       THEN /\ registered' = Register(socket_listen)
            /\ pc' = "wait"
            /\ UNCHANGED status
            /\ Idle
       ELSE Terminate("EXIT_FAILURE")
    /\ UNCHANGED << argv, optind, files, lines, configuration_options,
                    listener >>

NextStart ==
    \/ ParseOption
    \/ OpenConfigurationFile
    \/ ReadLine
    \/ CopyOverflows
    \/ EndOfFile
    \/ \E ok \in BOOLEAN : Daemonize(ok)
    \/ \E result \in ListenerResults, undefined \in UndefinedResults :
          initialize_listener_socket(result, undefined)
    \/ \E ok \in BOOLEAN : EnterLoop(ok)

StartSpec == StartInit /\ [][NextStart]_vars

(* -------------------------- the memory module -------------------------- *)
\* what malloc(size) may return: the first block that is not allocated, or
\* NULL (nothing is left to give; for a size of zero NULL is allowed too)
Mallocs ==
    { b \in Blocks : /\ ~heap[b].live
                     /\ \A c \in Blocks : ~heap[c].live => b <= c }
    \cup { NULL }

\* the heap after malloc() returned block b, and after free(b)
malloc(h, b) ==
    IF b = NULL THEN h ELSE [h EXCEPT ![b] = [live |-> TRUE, frees |-> 0]]
free(h, b) ==
    IF b = NULL THEN h
    ELSE [h EXCEPT ![b] = [live |-> FALSE, frees |-> @.frees + 1]]

\* the last two calls, the latest last
Record(call) ==
    IF Len(trace) < 2 THEN Append(trace, call) ELSE << trace[2], call >>

\* the variables the memory module does not touch
MemIdle ==
    UNCHANGED << events, i, open, registered, rdllist, backlog, clients, sock,
                 cnt, state, ops, last, first, fileContent, argv, optind,
                 files, lines, configuration_options, listener >>

\* a check that lets every pointer through
NeverNull(memory_block) == FALSE

\* if (memory_block == NULL)
IsNull(memory_block) == memory_block = NULL

\* v = allocate_memory(size): malloc, fatal_error when it returned NULL,
\* else the block is returned
allocate_memory(v, size, memory_block) ==
    /\ pc = "memory"
    /\ memory_block \in Mallocs
    /\ IF IsNull(memory_block)
       THEN /\ pc' = "exited"
            /\ status' = "EXIT_FAILURE"
            /\ trace' = Record([call |-> "allocate_memory", v |-> v,
                                size |-> size, before |-> ptr[v],
                                returned |-> FALSE, ret |-> NULL])
            /\ UNCHANGED << heap, ptr >>
       ELSE /\ heap' = malloc(heap, memory_block)
            /\ ptr' = [ptr EXCEPT ![v] = memory_block]
            /\ trace' = Record([call |-> "allocate_memory", v |-> v,
                                size |-> size, before |-> ptr[v],
                                returned |-> TRUE, ret |-> memory_block])
            /\ UNCHANGED << pc, status >>
    /\ MemIdle

\* a pointer variable that keeps its value
Dangling(p) == p

\* *ptr = NULL;
Nulled(p) == NULL

\* safe_free(&v): nothing when v is NULL, else free(v) and v = NULL
safe_free(v) ==
    /\ pc = "memory"
    /\ IF ptr[v] = NULL
       THEN UNCHANGED << heap, ptr >>
       ELSE /\ heap' = free(heap, ptr[v])
            /\ ptr' = [ptr EXCEPT ![v] = Nulled(ptr[v])]
    /\ trace' = Record([call |-> "safe_free", v |-> v, size |-> 0,
                        before |-> ptr[v], returned |-> TRUE, ret |-> NULL])
    /\ UNCHANGED << pc, status >>
    /\ MemIdle

\* a caller that allocates and frees through its pointer variables
MemInit ==
    /\ pc = "memory"
    /\ NoMemory
    /\ status = "running"
    /\ argv = <<>>
    /\ optind = 1
    /\ files = [path \in Paths |-> NoFile]
    /\ lines = 0
    /\ configuration_options = DefaultConfiguration
    /\ listener = "none"
    /\ events = <<>>
    /\ i = 0
    /\ open = {}
    /\ registered = {}
    /\ rdllist = <<>>
    /\ backlog = 0
    /\ clients = 0
    /\ sock = [fd \in ConnFds |-> FreshSock]
    /\ cnt = [fd \in ConnFds |-> NoCalls]
    /\ state = [fd \in ConnFds |-> "NONE"]
    /\ ops = <<>>
    /\ last = Step(socket_listen, "none")
    /\ first = <<>>
    /\ fileContent = << "h" >>

NextMem ==
    \/ \E v \in PtrVars, size \in 0..MaxSize, memory_block \in Blocks \cup {NULL} :
          allocate_memory(v, size, memory_block)
    \/ \E v \in PtrVars : safe_free(v)

MemSpec == MemInit /\ [][NextMem]_vars

(* ------------------- clients that send valid requests ------------------ *)
\* the requests in which each of the three strtok calls finds its token
ValidRequests == { data \in Requests : Found[data] = {3} }

\* the step for a valid request when send and sendfile write everything
ServeWhole(fd, data) == Serve(fd, data, Len(response), st_size)

\* every client sends a valid request and stays connected, and no call fails
NextLive ==
    \/ ClientConnect
    \/ \E fd \in ConnFds : ClientSend(fd)
    \/ Wait
    \/ Accept
    \/ IgnoreEvent
    \/ \E fd \in ConnFds, data \in ValidRequests : ServeWhole(fd, data)

\* the loop runs whenever it can, and every connected client sends
LiveSpec ==
    /\ Start(MaxLiveClients)
    /\ [][NextLive]_vars
    /\ WF_vars(Wait)
    /\ WF_vars(Accept)
    /\ WF_vars(IgnoreEvent)
    /\ WF_vars(\E fd \in ConnFds, data \in ValidRequests : ServeWhole(fd, data))
    /\ \A fd \in ConnFds : WF_vars(ClientSend(fd))

(* ------------------------------- claims -------------------------------- *)
\* the step read a positive number of bytes from a connection
ReadSome == last.request # <<>>

\* the steps in which open, fstat or sendfile reported a failure
FileFailures == {"open_failed", "stat_failed", "sendfile_failed"}

\* C1: a connection whose read returns at least three tokens delimited by
\* space, CR or LF, with open, fstat and sendfile succeeding, is written the
\* header block followed by exactly the file's bytes and is then
\* deregistered and closed, all in the step of that one event.
C1_ValidRequestIsServed ==
    (ReadSome /\ WireTokens(last.request) >= 3
              /\ last.outcome \notin FileFailures)
    => /\ last.outcome = "served"
       /\ last.reply = response \o fileContent
       /\ last.fd \notin open
       /\ last.fd \notin registered

\* C2: a connection whose read data holds fewer than three tokens delimited
\* by space, CR or LF is never written a byte of the header block or of the
\* file.
C2_MalformedGetsNoReply ==
    (ReadSome /\ WireTokens(last.request) < 3) => last.reply = <<>>

\* C3: when the read on a connection returns zero bytes or an error, the
\* server deregisters and closes that connection, attempts no response, and
\* the process keeps running.
C3_DisconnectIsSurvived ==
    last.outcome \in {"read_eof", "read_failed"}
    => /\ Running
       /\ last.fd \notin open
       /\ last.fd \notin registered
       /\ last.reply = <<>>

\* C4: at every multiplexer wait the registered descriptors are the
\* listening socket plus exactly the accepted connections still open.
C4_RegisteredIffOpen ==
    pc = "wait" => registered = {socket_listen} \cup open

\* C4 witness: the loop waits with one connection open and another one
\* already served and closed
C4_Witness ==
    /\ pc = "wait"
    /\ open # {}
    /\ \E fd \in ConnFds : fd \notin open /\ state[fd] = "RESPONSE_SENT"

\* C5: a close of a connection descriptor is preceded, in the same step, by
\* its deregistration, and a deregistration is followed at once by the
\* close; while the process runs no connection is open and unregistered or
\* registered and closed.
C5_CloseIsPairedWithDeregister ==
    /\ \A k \in 1..Len(ops) :
          /\ ops[k][1] = "close"
             => k > 1 /\ ops[k - 1] = <<"epoll_ctl_del", ops[k][2]>>
          /\ ops[k][1] = "epoll_ctl_del"
             => k < Len(ops) /\ ops[k + 1] = <<"close", ops[k][2]>>
    /\ Running => \A fd \in ConnFds : fd \in open <=> fd \in registered

\* C5 witness: a step that closed a connection
C5_Witness ==
    /\ last.outcome = "served"
    /\ <<"close", last.fd>> \in Range(ops)
    /\ last.fd \notin registered

\* the calls of a step on connection fd
CallsOn(calls, fd) == { k \in 1..Len(calls) : calls[k][2] = fd }

\* C6: between its accept and its close a connection is read at most once,
\* sent at most one response, deregistered at most once and closed at most
\* once; its state only moves forward from ACCEPTED to RESPONSE_SENT or
\* FAILED; and once it is in a terminal state no call is made on its
\* descriptor until accept returns that descriptor number again.
C6_SingleShot ==
    /\ [](\A fd \in ConnFds :
            /\ cnt[fd].reads <= 1 /\ cnt[fd].sends <= 1 /\ cnt[fd].xfers <= 1
            /\ cnt[fd].dels <= 1 /\ cnt[fd].closes <= 1)
    /\ [][\A fd \in ConnFds :
            /\ state'[fd] # state[fd]
               => \/ state'[fd] = "ACCEPTED" /\ ops'[1] = <<"accept", fd>>
                  \/ /\ state[fd] = "ACCEPTED"
                     /\ state'[fd] \in {"RESPONSE_SENT", "FAILED"}
                  \/ state'[fd] = "FAILED" /\ ops'[1] = <<"accept", fd>>
            /\ (ops' # ops /\ CallsOn(ops', fd) # {})
               => state[fd] = "ACCEPTED" \/ ops'[1] = <<"accept", fd>>]_vars

\* C6 witness: a descriptor number that served one connection was returned
\* by a later accept, and that second connection was served too
C6_Witness ==
    /\ clients = 0
    /\ open = {}
    /\ state[1] = "RESPONSE_SENT"
    /\ state[2] = "NONE"
    /\ cnt[1].reads = 1
    /\ last.outcome = "served"

C8_TransferredEqualsStatSize ==
    last.outcome = "served" => last.bytes_sent = st_size

C10_FileFailureIsSurvived ==
    last.outcome \in FileFailures
    => /\ Running
       /\ socket_listen \in registered
       /\ last.fd \notin open
       /\ last.fd \notin registered

\* C11: a request with fewer than three tokens is dropped silently: its
\* connection is deregistered and closed and the process keeps running.
C11_MalformedIsDropped ==
    last.outcome = "bad_request"
    => /\ Running
       /\ last.fd \notin open
       /\ last.fd \notin registered

\* C12: every accepted connection is in non-blocking mode, and a read that
\* would block leaves the connection registered and open, writes nothing
\* and leaves the process running.
C12_WouldBlockIsSkipped ==
    /\ \A fd \in open : sock[fd].nonblock
    /\ last.outcome = "would_block"
       => /\ Running
          /\ last.fd \in open
          /\ last.fd \in registered
          /\ last.reply = <<>>

\* C13: a wait that a signal interrupted is retried with the registrations
\* unchanged and the process running; any other failure of the wait ends
\* the process.
C13_InterruptedWaitIsRetried ==
    /\ last.outcome = "wait_interrupted"
       => /\ Running
          /\ pc = "wait"
          /\ registered = {socket_listen} \cup open
    /\ last.outcome = "wait_failed" => ~Running

\* C14: while the process runs the loop the listening socket is open and
\* registered (a descriptor in the interest list is an open one: close
\* removes it), and no step of the loop deregisters or closes it.
C14_ListenerStaysRegistered ==
    /\ [](Running => socket_listen \in registered)
    /\ [][\A k \in 1..Len(ops') :
             ops'[k] \notin { <<"epoll_ctl_del", socket_listen>>,
                              <<"close", socket_listen>> }]_vars

\* C14 witness: the loop has served and closed a connection, another one is
\* open, and the listener is still registered
C14_Witness ==
    /\ Running
    /\ last.outcome = "served"
    /\ open # {}
    /\ socket_listen \in registered

\* C15: a failed accept ends the process: the step makes no call but the
\* accept, creates and registers no connection, and no step follows it, so
\* the later events of the batch are not handled.
C15_AcceptFailureIsFatal ==
    /\ [](last.outcome = "accept_failed"
            => /\ pc = "exited"
               /\ ops = << <<"accept", socket_listen>> >>)
    /\ [][/\ last.outcome # "accept_failed"
          /\ last'.outcome = "accept_failed"
             => state' = state /\ cnt' = cnt /\ open' \subseteq open]_vars
    /\ [][last.outcome # "accept_failed"]_vars

\* C15 witness: accept failed with a later event of the batch not handled
C15_Witness ==
    /\ last.outcome = "accept_failed"
    /\ pc = "exited"
    /\ i + 1 < Len(events)

\* the process has ended with a status other than zero
Failed == pc = "exited" /\ status \notin { "running", "EXIT_SUCCESS" }

\* the configuration file has been opened
Opened == pc = "lines" \/ lines > 0

\* the line read last
LastLine == configuration_file.content[lines]

\* C16: initialize_listener_socket returns a socket that is bound and
\* listening or the process ends, whichever of getaddrinfo, socket, bind
\* and listen fails: once the call is over, the process has ended or the
\* listener is listening.
C16_ListenerOrExit ==
    pc \notin { "options", "file", "lines", "daemon", "listener" }
    => pc = "exited" \/ listener = "listening"

\* a line option=... whose option is not hostname, port or docroot
UnknownOptionLine(line) ==
    /\ Len(line) >= 3
    /\ line[2] = "="
    /\ line[1] \notin OptionDelimiters \cup { "hostname", "port", "docroot" }

RECURSIVE Uncommented(_)
Uncommented(line) ==
    IF line = <<>> \/ line[1] \in { "#", CR, LF } THEN <<>>
    ELSE << line[1] >> \o Uncommented(Tail(line))

\* a sequence without the spaces at its end
RECURSIVE Trimmed(_)
Trimmed(str) ==
    IF str # <<>> /\ str[Len(str)] = SP
    THEN Trimmed(SubSeq(str, 1, Len(str) - 1)) ELSE str

\* what a line option=value gives the option, the comment left out
ValueOf(line) == Trimmed(Tail(Tail(Uncommented(line))))

\* a line that is an option name, or an option name and '=', and no value
NoValueLine(line) ==
    LET str == Trimmed(Uncommented(line))
    IN /\ str # <<>>
       /\ str[1] \notin OptionDelimiters
       /\ Len(str) = 1 \/ (Len(str) = 2 /\ str[2] = "=")

\* C18: a line of the configuration file with an option name and no value
\* ends the process with a fatal error, whatever the option name.
C18_MissingValueIsFatal ==
    (lines > 0 /\ NoValueLine(LastLine)) => Failed

\* a line option=value for one of the three options, with or without a
\* comment behind the value
Assignment(line) ==
    /\ Len(line) >= 3
    /\ line[1] \in { "hostname", "port", "docroot" }
    /\ line[2] = "="
    /\ ValueOf(line) # <<>>

\* C19: the value stored for a line option=value#comment is the value
\* alone, without the comment and without the space before the '#'.
C19_CommentIsNotStored ==
    (pc = "lines" /\ lines > 0 /\ Assignment(LastLine))
    => configuration_options[Member(<< LastLine[1] >>)] = ValueOf(LastLine)

\* the argument the command line gives with one of the options in names,
\* <<>> when it gives none
RECURSIVE GivenFrom(_, _, _)
GivenFrom(words, k, names) ==
    IF k >= Len(words) THEN <<>>
    ELSE IF words[k] \in names THEN << words[k + 1] >>
    ELSE GivenFrom(words, k + 1, names)

\* the configuration is complete: initialize_server_configuration returned
Configured == pc \notin { "options", "file", "lines", "exited" }

\* C20: a host name or port given on the command line is the one in the
\* record that initialize_server_configuration returns, also when the
\* configuration file gives that option too.
C20_CommandLineWins ==
    Configured
    => /\ GivenFrom(argv, 1, { "-H", "--hostname" }) # <<>>
          => configuration_options.hostname
                = GivenFrom(argv, 1, { "-H", "--hostname" })
       /\ GivenFrom(argv, 1, { "-p", "--port" }) # <<>>
          => configuration_options.port
                = GivenFrom(argv, 1, { "-p", "--port" })

\* the options that name the configuration file
FileOptions == { "-f", "--configuration-filename" }

\* C21: -f <path> and --configuration-filename <path> each make <path> the
\* file that is opened and parsed: once the command line is parsed, the
\* record names the path given with either flag.
C21_EitherFlagNamesTheFile ==
    (pc \in { "file", "lines" } /\ GivenFrom(argv, 1, FileOptions) # <<>>)
    => configuration_options.configuration_filename
          = GivenFrom(argv, 1, FileOptions)

\* the call of the memory module made last
LastCall == trace[Len(trace)]

\* C22: allocate_memory(n) has two outcomes for every n: the process has
\* ended with a failure status and nothing was returned, or the caller holds
\* a pointer that is not null and refers to an allocated block.
C22_AllocateReturnsBlockOrExits ==
    (trace # <<>> /\ LastCall.call = "allocate_memory")
    => \/ /\ pc = "exited"
          /\ status = "EXIT_FAILURE"
          /\ ~LastCall.returned
       \/ /\ pc # "exited"
          /\ LastCall.returned
          /\ ptr[LastCall.v] # NULL
          /\ ptr[LastCall.v] = LastCall.ret
          /\ heap[ptr[LastCall.v]].live

\* C22 witness: a call returned a block, and a later call for zero bytes
\* ended the process because malloc returned NULL
C22_Witness ==
    /\ Len(trace) = 2
    /\ trace[1].call = "allocate_memory"
    /\ trace[1].returned
    /\ trace[1].ret # NULL
    /\ trace[2].call = "allocate_memory"
    /\ trace[2].size = 0
    /\ ~trace[2].returned
    /\ pc = "exited"

\* C23: safe_free(&p) frees the block p refers to, once, and leaves p null;
\* a call with p null frees nothing; no block is freed twice.
C23_SafeFreeFreesOnce ==
    /\ [][(trace' # trace /\ trace'[Len(trace')].call = "safe_free")
          => LET v == trace'[Len(trace')].v
             IN /\ ptr'[v] = NULL
                /\ \A w \in PtrVars \ {v} : ptr'[w] = ptr[w]
                /\ ptr[v] = NULL => heap' = heap
                /\ ptr[v] # NULL
                   => /\ ~heap'[ptr[v]].live
                      /\ heap'[ptr[v]].frees = heap[ptr[v]].frees + 1
                      /\ \A b \in Blocks \ {ptr[v]} : heap'[b] = heap[b]]_vars
    /\ [](\A b \in Blocks : heap[b].frees <= 1)

\* C23 witness: safe_free was called twice in a row with the same pointer
\* variable, which referred to a block before the first call
C23_Witness ==
    /\ Len(trace) = 2
    /\ trace[1].call = "safe_free"
    /\ trace[1].before # NULL
    /\ trace[2].call = "safe_free"
    /\ trace[2].v = trace[1].v
    /\ trace[2].before = NULL
    /\ heap[trace[1].before].frees = 1

\* the step to the primed state acts on event e and on nothing else: for
\* the listener it begins with accept and its further calls are on the
\* descriptor accepted, for a connection all its calls are on that connection
ActsOn(e) ==
    IF e.fd = socket_listen
    THEN /\ ops' # <<>>
         /\ ops'[1][1] = "accept"
         /\ \A k \in 2..Len(ops') : ops'[k][2] = ops'[1][2]
    ELSE /\ last'.fd = e.fd
         /\ \A k \in 1..Len(ops') : ops'[k][2] = e.fd

\* C24: a wait returns at most EPOLL_MAX_EVENTS events; the k-th loop step
\* after it acts on the k-th event of the batch and on no other, the index
\* moves by one event per step, and wait is called again only when every
\* event of the batch has been handled (or never, when the process ended).
C24_BatchInOrder ==
    /\ [](Len(events) <= maxevents /\ maxevents <= EPOLL_MAX_EVENTS)
    /\ [][/\ events' # events => pc = "wait"
          /\ (pc = "wait" /\ pc' = "handle")
             => i = Len(events) /\ i' = 0 /\ ops' = <<>>
          /\ (pc = "handle" /\ (i' # i \/ pc' = "exited"))
             => /\ i < Len(events)
                /\ ActsOn(events[i + 1])
                /\ pc' # "exited" => i' = i + 1
          /\ (pc = "handle" /\ pc' = "wait") => i' = Len(events)
          /\ (pc = "handle" /\ i' = i /\ pc' # "exited") => ops' = <<>>]_vars

\* C24 witness: a batch of two events for two descriptors was handled to
\* its end, the second event by serving its connection
C24_Witness ==
    /\ pc = "wait"
    /\ Len(events) = 2
    /\ i = 2
    /\ events[1].fd # events[2].fd
    /\ last.fd = events[2].fd
    /\ last.outcome = "served"

\* the connections that have been read and are not closed yet
PartWay == { fd \in open : cnt[fd].reads > 0 }

\* the process is asleep in a system call
Suspended == pc \in { "wait", "sendfile" }

\* C25: the handling of one event runs to its end before anything else
\* starts: at most one connection is part-way through its request, none is
\* when the loop waits, and the process is suspended nowhere but in the
\* multiplexer wait.
C25_SuspendsOnlyInWait ==
    /\ Cardinality(PartWay) <= 1
    /\ pc = "wait" => PartWay = {}
    /\ Suspended => pc = "wait"

\* the calls of the step to the primed state that are calls of name
CallsOf(name) == { k \in 1..Len(ops') : ops'[k][1] = name }

\* C26: the step for an event of the listening socket calls accept exactly
\* once and no other step calls it; when accept succeeds the same step
\* registers the new descriptor, edge-triggered, for readable, peer hang-up
\* and error events, so it is registered before any other event is handled;
\* and a connection that is read was registered before the step began.
C26_AcceptOnceThenRegister ==
    [][/\ (pc = "handle" /\ (i' # i \/ pc' = "exited"))
          => Cardinality(CallsOf("accept"))
                = IF events[i + 1].fd = socket_listen THEN 1 ELSE 0
       /\ (last' # last /\ last'.outcome = "accepted")
          => /\ Len(ops') = 2
             /\ ops'[2][1] = "epoll_ctl_add"
             /\ ops'[2][2] = ops'[1][2]
             /\ { "EPOLLIN", "EPOLLET", "EPOLLRDHUP", "EPOLLERR" }
                   \subseteq ops'[2][3]
             /\ ops'[1][2] \in open' \ open
             /\ ops'[1][2] \in registered'
       /\ \A k \in CallsOf("read") :
             ops' # ops => ops'[k][2] \in registered \cap open]_vars

\* C26 witness: accept returned a descriptor that is now registered, in a
\* batch that has a further event still to be handled
C26_Witness ==
    /\ last.outcome = "accepted"
    /\ ops[1] = <<"accept", last.fd>>
    /\ last.fd \in registered
    /\ pc = "handle"
    /\ i < Len(events)

\* the calls the dispatcher makes for connection fd, in the order claimed
ServeOrder(fd) ==
    << <<"send", fd>>, <<"open", fd>>, <<"fstat", fd>>, <<"sendfile", fd>>,
       <<"close_file", fd>>, <<"epoll_ctl_del", fd>>, <<"close", fd>> >>

\* C27: after the read, the calls of a step on a connection are send, open,
\* fstat, sendfile, close of the file, deregistration and close in that
\* order, as far as the step got, and all seven when the request was
\* served: open never comes before send, and close never before sendfile.
C27_ServeOrder ==
    (ops # <<>> /\ ops[1][1] = "read")
    => LET fd == ops[1][2]
           rest == Tail(ops)
       IN /\ Len(rest) <= Len(ServeOrder(fd))
          /\ rest = SubSeq(ServeOrder(fd), 1, Len(rest))
          /\ last.outcome = "served" => rest = ServeOrder(fd)

\* C27 witness: a request was served with all eight calls of the step made
C27_Witness ==
    /\ last.outcome = "served"
    /\ Len(ops) = 8
    /\ ops[1] = <<"read", last.fd>>
    /\ ops[8] = <<"close", last.fd>>

\* the bytes up to the first CR or LF
RECURSIVE FirstLine(_)
FirstLine(data) ==
    IF data = <<>> \/ data[1] \in { CR, LF } THEN <<>>
    ELSE << data[1] >> \o FirstLine(Tail(data))

\* C28: the method, URI and version come from the first line only: a
\* request whose first line has fewer than three tokens is reported as
\* missing a token, whatever the later lines hold.
C28_FirstLineOnly ==
    (ReadSome /\ WireTokens(FirstLine(last.request)) < 3)
    => last.outcome = "bad_request"

\* the path of the file name in the directory dir
InDirectory(dir, name) ==
    (IF dir[Len(dir)] = "/" THEN dir ELSE Append(dir, "/")) \o name

\* C29: once the loop runs with a document root configured, the file that
\* is opened for a request is index.html inside that directory, whatever
\* the request: /srv/http/index.html for the document root /srv/http.
C29_IndexInsideDocroot ==
    (pc = "wait"
        /\ configuration_options.document_root_directory # Uninitialized)
    => filename_buffer
          = InDirectory(configuration_options.document_root_directory,
                        << "index.html" >>)

\* connection fd has sent nothing that is unread and its peer is connected
Silent(fd) == fd \in open /\ ~sock[fd].pending /\ sock[fd].peer = "open"

\* C30: no step closes or deregisters a connection that is silent, whatever
\* the step handles, unless the step ends the process; so a connection that
\* was accepted and never read is open and registered while the process
\* runs.
C30_SilentConnectionStays ==
    /\ [][\A fd \in ConnFds :
             (Silent(fd) /\ pc' # "exited")
             => fd \in open' /\ fd \in registered']_vars
    /\ [](\A fd \in ConnFds :
             (Running /\ state[fd] = "ACCEPTED" /\ cnt[fd].reads = 0)
             => fd \in open /\ fd \in registered)

\* C30 witness: another connection was served and closed while a silent
\* one that was accepted before it stays open and registered
C30_Witness ==
    /\ Running
    /\ last.outcome = "served"
    /\ \E fd \in ConnFds :
          /\ Silent(fd)
          /\ fd < last.fd
          /\ cnt[fd].reads = 0
          /\ fd \in registered

\* the lines of the file that is read which name option opt
Naming(opt) ==
    { k \in 1..Len(configuration_file.content) :
         /\ configuration_file.content[k] # <<>>
         /\ configuration_file.content[k][1] = opt }

\* s begins with p
BeginsWith(s, p) == Len(p) <= Len(s) /\ SubSeq(s, 1, Len(p)) = p

\* what the record holds for an option after the defaults, then the command
\* line, then the file: the value of the last line of the file that names
\* the option, else the command line's, else the default
InOrder(member, opt, names, default) ==
    IF Naming(opt) # {}
    THEN LET k == CHOOSE n \in Naming(opt) : \A m \in Naming(opt) : m <= n
         IN BeginsWith(configuration_options[member],
                       ValueOf(configuration_file.content[k]))
    ELSE IF GivenFrom(argv, 1, names) # <<>>
    THEN configuration_options[member] = GivenFrom(argv, 1, names)
    ELSE configuration_options[member] = default

\* C31: the record initialize_server_configuration returns is the defaults,
\* overwritten by the command line, overwritten by the file: hostname and
\* port hold the file's value when the file names them, else the value the
\* command line gave, else the default.
C31_DefaultsThenCommandLineThenFile ==
    Configured
    => /\ InOrder("hostname", "hostname", { "-H", "--hostname" },
                  DEFAULT_HOSTNAME)
       /\ InOrder("port", "port", { "-p", "--port" }, DEFAULT_PORT)

\* C31 witness: the command line gave a host name and a port, the file
\* names the port only: the host name is the command line's and the port is
\* the file's
C31_Witness ==
    /\ Configured
    /\ Naming("port") # {}
    /\ Naming("hostname") = {}
    /\ GivenFrom(argv, 1, { "-p", "--port" }) # <<>>
    /\ configuration_options.hostname
          = GivenFrom(argv, 1, { "-H", "--hostname" })
    /\ configuration_options.port # GivenFrom(argv, 1, { "-p", "--port" })
    /\ configuration_options.port # DEFAULT_PORT

\* a line that holds nothing but white space before its comment, if it has
\* one, and its line terminator
BlankLine(line) == \A k \in 1..Len(Uncommented(line)) :
                      Uncommented(line)[k] \in { SP, TAB }

\* C32: reading a line that is blank or only a comment changes nothing in
\* the record and is no error: the process runs on and reads the next line.
C32_BlankLineIsSkipped ==
    [][(lines' = lines + 1 /\ BlankLine(configuration_file.content[lines']))
       => /\ pc' = "lines"
          /\ status' = "running"
          /\ configuration_options' = configuration_options]_vars

\* C33: the loop step for an event of a connection whose mask has no
\* EPOLLIN makes no call, leaves the connection open and registered and
\* every connection as it was, and goes on to the next event of the batch.
C33_NotReadableIsPassedOver ==
    [][(/\ pc = "handle"
        /\ i < Len(events)
        /\ i' # i \/ pc' = "exited"
        /\ events[i + 1].fd # socket_listen
        /\ "EPOLLIN" \notin events[i + 1].events)
       => /\ ops' = <<>>
          /\ cnt' = cnt
          /\ state' = state
          /\ open' = open
          /\ registered' = registered
          /\ events[i + 1].fd \in open' \cap registered'
          /\ pc' # "exited"
          /\ i' = i + 1]_vars

\* C33 witness: the first event of a batch of two was an event without
\* EPOLLIN for a connection, which is open and registered, and the loop is
\* at the second event
C33_Witness ==
    /\ last.outcome = "ignored"
    /\ pc = "handle"
    /\ Len(events) = 2
    /\ i = 1
    /\ events[1].fd = last.fd
    /\ "EPOLLIN" \notin events[1].events
    /\ last.fd \in open \cap registered

\* a step of the process that does not wait for a peer: every step of the
\* loop but the return of a call the process sleeps in
ProcessStep ==
    /\ pc # "sendfile"
    /\ NextBlocking
    /\ << pc, i >>' # << pc, i >>

\* a reset of the connection ends the sleep in sendfile()
WokenByReset ==
    /\ pc = "sendfile"
    /\ sock[ev.fd].peer = "rst"
    /\ TransferAborts

\* the loop with the calls that may put the process to sleep; the single
\* thread takes its next step whenever it can, clients do as they please
FairBlockingSpec ==
    /\ Init
    /\ [][NextBlocking]_vars
    /\ WF_vars(ProcessStep)
    /\ WF_vars(WokenByReset)

\* C34: unless the process terminates, a connection pending in the
\* listener's backlog is eventually accepted: the backlog is emptied.
C34_PendingIsAccepted ==
    (backlog > 0) ~> (backlog = 0 \/ pc = "exited")

\* the strtok calls made on the buffer of the step that read last
Tokenized == StrtokCalls(Buffer(last.request), 1, 3)

\* C35: the buffer a step hands to strtok holds a NUL, whatever the read
\* returned, and no strtok call of the step scans past its last byte.
C35_TokenizerStaysInBuffer ==
    (ReadSome /\ last.outcome # "read_failed")
    => /\ \E k \in 1..BufLen : Buffer(last.request)[k] = NUL
       /\ \A k \in 1..Len(Tokenized) : Tokenized[k].ret \in {"TOKEN", "NULL"}

\* C36: a step calls sendfile on a connection, and file bytes reach it,
\* only when the send before it wrote the whole header block.
C36_FileOnlyAfterWholeHeader ==
    \A fd \in ConnFds :
        (<<"sendfile", fd>> \in Range(ops) \/ (last.fd = fd /\ last.bytes_sent > 0))
        => last.sent = Len(response)

(* ------------------------- the entry of main() ------------------------- *)
\* every option of the command line is one initialize_server_configuration
\* acts on, with its argument
RECURSIVE OptionsKnown(_, _)
OptionsKnown(words, k) ==
    LET r == getopt_long(words, k)
    IN IF r.c = "-1" THEN TRUE
       ELSE IF r.c \in { "H", "p", "f" } THEN OptionsKnown(words, r.optind)
       ELSE FALSE

\* a valid configuration: a command line of known options, and a
\* configuration file that exists and holds nothing but blank lines,
\* comments and assignments to hostname, port and docroot
ValidStart(words, fs) ==
    /\ OptionsKnown(words, 1)
    /\ LET given == GivenFrom(words, 1, { "--configuration-filename" })
           path == IF given = <<>> THEN DEFAULT_CONFIGURATION_FILENAME
                   ELSE given
       IN /\ fs[path].found
          /\ \A k \in 1..Len(fs[path].content) :
                \/ BlankLine(fs[path].content[k])
                \/ Assignment(fs[path].content[k])

\* main() is entered with a valid configuration; argv stands for what
\* follows the word the pointer argv is at
MainInit ==
    /\ argv \in CommandLines
    /\ files \in FileSystems
    /\ ValidStart(argv, files)
    /\ optind = 1
    /\ lines = 0
    /\ configuration_options = DefaultConfiguration
    /\ listener = "none"
    /\ status = "running"
    /\ NoMemory
    /\ pc = "main"
    /\ events = <<>>
    /\ i = 0
    /\ open = {}
    /\ registered = {}
    /\ rdllist = <<>>
    /\ backlog = 0
    /\ clients = 0
    /\ sock = [fd \in ConnFds |-> FreshSock]
    /\ cnt = [fd \in ConnFds |-> NoCalls]
    /\ state = [fd \in ConnFds |-> "NONE"]
    /\ ops = <<>>
    /\ last = Step(socket_listen, "none")
    /\ first = <<>>
    /\ fileContent \in { << "h" >> }

\* if (argc == 1) { fprintf(stderr, "No input(s).\n"); return EXIT_FAILURE; }
NoInputs ==
    /\ pc = "main"
    /\ argv = <<>>
    /\ Terminate("EXIT_FAILURE")
    /\ UNCHANGED << argv, optind, files, lines, configuration_options,
                    listener >>

\* what a turn of while (*++argv) may end in: print_uri() and free_uri()
\* read the members of a struct uri_t that parse_uri() left uninitialized
UriResults == { "returned", "SIGSEGV" }

\* one turn of while (*++argv): parse_uri, print_uri, free_uri
PrintUri(result) ==
    /\ pc \in { "main", "uris" }
    /\ argv # <<>>
    /\ argv' = Tail(argv)
    /\ IF result = "returned"
       THEN /\ pc' = "uris"
            /\ UNCHANGED << status, registered >>
            /\ Idle
       ELSE Terminate(result)
    /\ UNCHANGED << optind, files, lines, configuration_options, listener >>

\* *++argv is NULL: return EXIT_SUCCESS, the statement before the call of
\* initialize_server_configuration
ReturnBeforeStartup ==
    /\ pc = "uris"
    /\ argv = <<>>
    /\ Terminate("EXIT_SUCCESS")
    /\ UNCHANGED << argv, optind, files, lines, configuration_options,
                    listener >>

NextMain ==
    \/ NoInputs
    \/ \E result \in UriResults : PrintUri(result)
    \/ ReturnBeforeStartup

MainSpec == MainInit /\ [][NextMain]_vars

\* C38: started with a valid configuration, main does not return and the
\* process does not exit before the listening socket exists.
C38_ListenerBeforeReturn ==
    pc = "exited" => listener = "listening"

\* C37: once initialize_server_configuration has returned, hostname, port
\* and document root of the record each hold a value that was assigned.
C37_MembersAreDefined ==
    Configured
    => \A member \in { "hostname", "port", "document_root_directory" } :
          configuration_options[member] # Uninitialized

\* C39: in every step that copies the value of a line, the buffer
\* allocated for the copy is at least one byte longer than the value, and
\* the bytes strcpy writes, the terminator among them, fit in it.
C39_CopyFitsItsBuffer ==
    [][(/\ pc = "lines"
        /\ lines' = lines + 1
        /\ NextLine.kind \in { "stored", "unrecognized" })
       => /\ Allocated(NextLine.value) >= Len(NextLine.value) + 1
          /\ Copied(NextLine.value) <= Allocated(NextLine.value)]_vars

====
